---- MODULE Spec2Model ----
(***************************************************************************)
(* Model of the raster geometry utilities of sar_antarctica:               *)
(*   utils/raster.py            expand_raster_to_bounds,                   *)
(*                              merge_arrays_with_geometadata,             *)
(*                              read_raster_with_bounds, reproject_raster, *)
(*                              merge_raster_files                          *)
(*   nci/preparation/create_dem_vrt.py   build_vrt, build_tileindex        *)
(*   nci/preparation/dem.py     check_bounds_cross_antimeridian,           *)
(*                              split_bounds_at_am_crossing                *)
(*                                                                         *)
(* Python floats are modelled as binary floating-point numbers with        *)
(* MantBits significant bits, round-to-nearest-even, on a grid of          *)
(* 2^-FracBits: a float is the integer k standing for k / Scale.           *)
(***************************************************************************)
EXTENDS Integers, Sequences, FiniteSets, TLC

VARIABLES
    call,       \* expand_raster_to_bounds: the arguments of the call
    exp,        \* expand_raster_to_bounds: position and locals of the call
    am,         \* antimeridian check and split: arguments, position, results
    rd,         \* read_raster_with_bounds: arguments, position, results
    mg,         \* merge_arrays_with_geometadata: arguments, position, open handles
    wr,         \* the writing operations: arguments, position, files on disk
    sh          \* build_vrt / build_tileindex: the invocations and the working directory

expVars == <<call, exp>>
vars == <<call, exp, am, rd, mg, wr, sh>>

(***************************************************************************)
(* Floating-point arithmetic                                               *)
(***************************************************************************)
FracBits == 13
MantBits == 10
Scale == 2 ^ FracBits

Abs(x) == IF x < 0 THEN -x ELSE x
Min2(x, y) == IF x <= y THEN x ELSE y
Max2(x, y) == IF x >= y THEN x ELSE y

\* n / d (n >= 0, d > 0) rounded to the nearest integer, ties to even
RoundHalfEven(n, d) ==
    LET q == n \div d
        r == n % d
    IN  IF 2 * r < d THEN q
        ELSE IF 2 * r > d THEN q + 1
        ELSE IF q % 2 = 0 THEN q ELSE q + 1

\* the spacing (in grid units) of the floats around n / d
RECURSIVE Ulp(_, _, _)
Ulp(n, d, u) == IF n \div (u * (2 ^ MantBits)) < d THEN u ELSE Ulp(n, d, 2 * u)

\* the float nearest to the rational n / d grid units (d > 0)
Fl(n, d) ==
    LET m == Abs(n)
        u == Ulp(m, d, 1)
        k == RoundHalfEven(m, d * u) * u
    IN  IF n >= 0 THEN k ELSE -k

FAdd(x, y) == Fl(x + y, 1)
FSub(x, y) == Fl(x - y, 1)
\* an int times a float (the int converts exactly)
FMulInt(n, x) == Fl(n * x, 1)
FMul(x, y) == Fl(x * y, Scale)
FDiv(x, y) == IF y > 0 THEN Fl(x * Scale, y) ELSE Fl(-x * Scale, -y)
\* int(x): truncation toward zero
PyInt(x) == IF x >= 0 THEN x \div Scale ELSE -((-x) \div Scale)
\* int(round(x)): Python rounds a float half to even
PyRound(x) == IF x >= 0 THEN RoundHalfEven(x, Scale) ELSE -RoundHalfEven(-x, Scale)

(***************************************************************************)
(* Profiles and bounds                                                     *)
(***************************************************************************)
\* a rasterio profile: size and the transform's a, e (pixel sizes), c, f (origin)
Profile(w, h, a, e, c, f) ==
    [width |-> w, height |-> h, a |-> a, e |-> e, c |-> c, f |-> f]

\* rasterio.transform.array_bounds: (west, south, east, north)
array_bounds(height, width, t) ==
    [left   |-> t.c,
     bottom |-> FAdd(FMulInt(height, t.e), t.f),
     right  |-> FAdd(FMulInt(width, t.a), t.c),
     top    |-> t.f]

bounds_from_profile(profile) ==
    array_bounds(profile.height, profile.width, profile)

\* rasterio.transform.from_origin(west, north, xsize, ysize)
from_origin(west, north, xsize, ysize) ==
    [a |-> xsize, e |-> -ysize, c |-> west, f |-> north]

(***************************************************************************)
(* expand_raster_to_bounds                                                 *)
(***************************************************************************)
\* Variant: the assertion without its last alternative, "or src_profile"
AssertCondNoProfileOnly(c) ==
    c.src_path \/ (c.src_profile /\ c.src_array)

\* the assertion on the three optional source arguments
AssertCond(c) ==
    c.src_path \/ (c.src_profile /\ c.src_array) \/ c.src_profile

\* number of pixels between the source edge and the target edge
NewPixels(trg, src, res) == PyInt(FDiv(Abs(FSub(trg, src)), res))

\* keep the source edge when it is already beyond the target edge
KeepLeft(src, trg, new) == IF src < trg THEN src ELSE new
KeepRight(src, trg, new) == IF src > trg THEN src ELSE new
KeepBottom(src, trg, new) == IF src < trg THEN src ELSE new
KeepTop(src, trg, new) == IF src < trg THEN src ELSE new

\* width or height of the new extent in pixels
NewSize(hi, lo, res) == PyInt(FDiv(FSub(hi, lo), res))

\* the locals of expand_raster_to_bounds up to the fill array
ExpandLocals(c) ==
    LET p == c.profile
        sb == bounds_from_profile(p)
        trg == c.trg_bounds
        lon_res == Abs(p.a)
        lat_res == Abs(p.e)
        new_left_pixels == NewPixels(trg.left, sb.left, lon_res)
        new_right_pixels == NewPixels(trg.right, sb.right, lon_res)
        new_bottom_pixels == NewPixels(trg.bottom, sb.bottom, lat_res)
        new_top_pixels == NewPixels(trg.top, sb.top, lat_res)
        new_trg_left ==
            KeepLeft(sb.left, trg.left,
                     FSub(sb.left, FMulInt(new_left_pixels, lon_res)))
        new_trg_right ==
            KeepRight(sb.right, trg.right,
                      FAdd(sb.right, FMulInt(new_right_pixels, lon_res)))
        new_trg_bottom ==
            KeepBottom(sb.bottom, trg.bottom,
                       FSub(sb.bottom, FMulInt(new_bottom_pixels, lat_res)))
        new_trg_top ==
            KeepTop(sb.top, trg.top,
                    FAdd(sb.top, FMulInt(new_top_pixels, lat_res)))
        new_width == NewSize(new_trg_right, new_trg_left, lon_res)
        new_height == NewSize(new_trg_top, new_trg_bottom, lat_res)
        t == from_origin(new_trg_left, new_trg_top, lon_res, lat_res)
    IN  [src_bounds |-> sb,
         lon_res |-> lon_res,
         lat_res |-> lat_res,
         new_trg |-> [left |-> new_trg_left, bottom |-> new_trg_bottom,
                      right |-> new_trg_right, top |-> new_trg_top],
         fill_profile |-> Profile(new_width, new_height, t.a, t.e, t.c, t.f),
         fill_shape |-> <<1, new_height, new_width>>]

\* rasterio.merge.merge of [src, fill] as called by merge_arrays_with_geometadata:
\* the union of the datasets' bounds at the first dataset's resolution
MergedProfile(p1, p2) ==
    LET b1 == bounds_from_profile(p1)
        b2 == bounds_from_profile(p2)
        dst_w == Min2(b1.left, b2.left)
        dst_s == Min2(b1.bottom, b2.bottom)
        dst_e == Max2(b1.right, b2.right)
        dst_n == Max2(b1.top, b2.top)
        w == PyRound(FDiv(FSub(dst_e, dst_w), Abs(p1.a)))
        h == PyRound(FDiv(FSub(dst_n, dst_s), Abs(p1.e)))
    IN  Profile(w, h, Abs(p1.a), -Abs(p1.e), dst_w, dst_n)

NoProfile == Profile(0, 0, 0, 0, 0, 0)
NoBounds == [left |-> 0, bottom |-> 0, right |-> 0, top |-> 0]
NoLocals ==
    [src_bounds |-> NoBounds, lon_res |-> 0, lat_res |-> 0, new_trg |-> NoBounds,
     fill_profile |-> NoProfile, fill_shape |-> <<0, 0, 0>>]

ExpandCalled == [pc |-> "call", error |-> "none", effects |-> {},
                 locals |-> NoLocals, ret |-> NoProfile]

\* the whole call: what it raises or returns, and what it read, built and wrote
expand_raster_to_bounds(c) ==
    LET L == ExpandLocals(c)
        read == IF c.src_path THEN {"read"} ELSE {}
        \* src.read(1) is a 2-D band; a passed array has the caller's ndim
        has_array == c.src_path \/ c.src_array
        ndim == IF c.src_path THEN 2 ELSE c.ndim
    IN  IF ~AssertCond(c)
        THEN [pc |-> "raised", error |-> "AssertionError", effects |-> {},
              locals |-> NoLocals, ret |-> NoProfile]
        ELSE IF ~c.src_path /\ ~c.src_profile
        THEN \* src_profile is None: src_profile['height'] fails
             [pc |-> "raised", error |-> "TypeError", effects |-> {},
              locals |-> NoLocals, ret |-> NoProfile]
        ELSE IF has_array /\ ndim # 3
        THEN \* merge_arrays_with_geometadata: the fill array is 3-D
             [pc |-> "raised", error |-> "ValueError",
              effects |-> read \cup {"built"},
              locals |-> L, ret |-> NoProfile]
        ELSE [pc |-> "returned", error |-> "none",
              effects |-> read \cup {"built"}
                          \cup (IF c.save_path THEN {"written"} ELSE {}),
              locals |-> L,
              ret |-> IF has_array
                      THEN MergedProfile(c.profile, L.fill_profile)
                      ELSE L.fill_profile]

Expand ==
    /\ exp.pc = "call"
    /\ exp' = expand_raster_to_bounds(call)
    /\ UNCHANGED <<call, am, rd, mg, wr, sh>>

\* ---- inputs of expand_raster_to_bounds
MaxSize == 3
ResSet == {Fl(Scale, 10), Scale \div 4}
OriginSet == {Fl(k * Scale, 10) : k \in {3, 23}}
TrgSet == {Fl(k * Scale, 4) : k \in {-3, 1, 9, 14}}

Rasters ==
    {Profile(w, h, r, -r, c, f) :
        w \in 1..MaxSize, h \in 1..MaxSize, r \in ResSet,
        c \in OriginSet, f \in OriginSet}

Targets ==
    {[left |-> l, bottom |-> b, right |-> r, top |-> t] :
        l \in TrgSet, b \in TrgSet, r \in TrgSet, t \in TrgSet}

ValidTargets == {b \in Targets : b.left < b.right /\ b.bottom < b.top}

Calls ==
    {[src_path |-> sp, src_profile |-> pr, src_array |-> ar, ndim |-> nd,
      save_path |-> sv, profile |-> p, trg_bounds |-> tb] :
        sp \in BOOLEAN, pr \in BOOLEAN, ar \in BOOLEAN, nd \in {0, 2, 3},
        sv \in BOOLEAN, p \in Rasters, tb \in ValidTargets}

NoCall ==
    [src_path |-> FALSE, src_profile |-> FALSE, src_array |-> FALSE, ndim |-> 0,
     save_path |-> FALSE, profile |-> NoProfile, trg_bounds |-> NoBounds]
NoBox == [min_x |-> 0, min_y |-> 0, max_x |-> 0, max_y |-> 0]
AmIdle == [bounds |-> NoBox, lat_buff |-> 0, pc |-> "idle", crosses |-> FALSE,
           left |-> NoBox, right |-> NoBox]

NoWindow == [col_off |-> 0, row_off |-> 0, width |-> 0, height |-> 0]
NoRead == [row_start |-> 0, row_stop |-> 0, col_start |-> 0, col_stop |-> 0]
RdIdle == [raster |-> NoProfile, bounds |-> NoBox, buffer_pixels |-> 0,
           pc |-> "idle", error |-> "none",
           window |-> NoWindow, data |-> NoRead, profile |-> NoProfile]

MgIdle == [ndims |-> <<>>, nprofiles |-> 0, profile_ok |-> <<>>, shape_ok |-> <<>>,
           resampling |-> "bilinear", pc |-> "idle", i |-> 0, error |-> "none",
           memfiles |-> {}, datasets |-> {}]
WrIdle == [op |-> "none", pc |-> "idle", fail_at |-> "none", fail_band |-> 0,
           count |-> 0, band |-> 0, return_data |-> FALSE, gdal_raises |-> FALSE,
           error |-> "none", files |-> {}, partial |-> {}]
ShIdle == [procs |-> <<>>, files |-> <<>>, next_ino |-> 0, lost |-> {}]

InitExpand ==
    /\ call \in {c \in Calls : (c.ndim = 0) <=> ~c.src_array}
    /\ exp = ExpandCalled
    /\ am = AmIdle
    /\ rd = RdIdle
    /\ mg = MgIdle /\ wr = WrIdle /\ sh = ShIdle

NextExpand == Expand

SpecExpand == InitExpand /\ [][NextExpand]_vars

(***************************************************************************)
(* Claims about expand_raster_to_bounds                                    *)
(***************************************************************************)
Returned == exp.pc = "returned"
SrcBounds == exp.locals.src_bounds
TrgBounds == call.trg_bounds
RetBounds == bounds_from_profile(exp.ret)
\* floating tolerance: a quarter of a pixel, far above the rounding error of
\* the arithmetic and below the whole pixel an edge moves by
TolX == exp.locals.lon_res \div 4
TolY == exp.locals.lat_res \div 4

\* C1: the bounds of the returned profile contain the source bounds and the
\* target bounds on all four sides (up to the floating tolerance), also for
\* targets that are not a whole number of pixels away from the source edge.
C1_ContainsSourceAndTarget ==
    Returned =>
        /\ RetBounds.left <= Min2(SrcBounds.left, TrgBounds.left) + TolX
        /\ RetBounds.right >= Max2(SrcBounds.right, TrgBounds.right) - TolX
        /\ RetBounds.bottom <= Min2(SrcBounds.bottom, TrgBounds.bottom) + TolY
        /\ RetBounds.top >= Max2(SrcBounds.top, TrgBounds.top) - TolY

\* C2: on each side where the source edge is at or beyond the target edge,
\* the resulting edge is the source edge (no pixel is added on that side).
C2_SideBeyondTargetUnchanged ==
    Returned =>
        /\ SrcBounds.left <= TrgBounds.left
             => Abs(RetBounds.left - SrcBounds.left) <= TolX
        /\ SrcBounds.right >= TrgBounds.right
             => Abs(RetBounds.right - SrcBounds.right) <= TolX
        /\ SrcBounds.bottom <= TrgBounds.bottom
             => Abs(RetBounds.bottom - SrcBounds.bottom) <= TolY
        /\ SrcBounds.top >= TrgBounds.top
             => Abs(RetBounds.top - SrcBounds.top) <= TolY

\* C3: new_width * lon_res and new_height * lat_res reproduce the new extent
\* (new_trg_right - new_trg_left, new_trg_top - new_trg_bottom) within the
\* floating tolerance, (new_left, new_top) is the origin of the fill
\* transform, and the fill array has shape (1, new_height, new_width).
C3_SizeReproducesExtent ==
    exp.pc # "call" /\ exp.locals # NoLocals =>
        LET L == exp.locals
            fp == L.fill_profile
        IN  /\ Abs(FMulInt(fp.width, L.lon_res)
                   - FSub(L.new_trg.right, L.new_trg.left)) <= TolX
            /\ Abs(FMulInt(fp.height, L.lat_res)
                   - FSub(L.new_trg.top, L.new_trg.bottom)) <= TolY
            /\ fp.c = L.new_trg.left /\ fp.f = L.new_trg.top
            /\ L.fill_shape = <<1, fp.height, fp.width>>

ExactlyOneSourceForm(c) ==
    \/ c.src_path /\ ~c.src_profile /\ ~c.src_array
    \/ ~c.src_path /\ c.src_profile /\ c.src_array

MicroDeg == 10 ^ 6
Box(x0, y0, x1, y1) == [min_x |-> x0, min_y |-> y0, max_x |-> x1, max_y |-> y1]

\* Variant: only the wrapped encoding is detected
CrossesOnlyWrapped(b) == b.min_x > b.max_x

check_bounds_cross_antimeridian(b) ==
    b.min_x > b.max_x \/ b.max_x - b.min_x > 180 * MicroDeg

split_bounds_at_am_crossing(b, lat_buff) ==
    [left  |-> Box(-180 * MicroDeg, b.min_y - lat_buff, b.min_x, b.max_y + lat_buff),
     right |-> Box(b.max_x, b.min_y - lat_buff, 180 * MicroDeg, b.max_y + lat_buff)]

CheckCross ==
    /\ am.pc = "input"
    /\ am' = [am EXCEPT !.pc = "checked",
                        !.crosses = check_bounds_cross_antimeridian(am.bounds)]
    /\ UNCHANGED <<expVars, rd, mg, wr, sh>>

SplitBounds ==
    /\ am.pc = "checked"
    /\ am.crosses
    /\ LET s == split_bounds_at_am_crossing(am.bounds, am.lat_buff)
       IN  am' = [am EXCEPT !.pc = "split", !.left = s.left, !.right = s.right]
    /\ UNCHANGED <<expVars, rd, mg, wr, sh>>

\* ---- inputs: the boxes of the tests and a grid of longitudes
TestBoxNoCross == Box(163121597, -78632782, 172382263, -76383263)
TestBoxCross == Box(-177884048, -78176201, 178838364, -75697151)
TestLatBuff == MicroDeg \div 10
LonStep == 60
MaxLatBuff == 1
LonSet ==
    {k * LonStep * MicroDeg : k \in (-180 \div LonStep)..(180 \div LonStep)}
        \cup {TestBoxNoCross.min_x, TestBoxNoCross.max_x,
              TestBoxCross.min_x, TestBoxCross.max_x}
LatPairs == {<<TestBoxNoCross.min_y, TestBoxNoCross.max_y>>,
             <<TestBoxCross.min_y, TestBoxCross.max_y>>}
Boxes == {Box(x0, yy[1], x1, yy[2]) : x0 \in LonSet, x1 \in LonSet, yy \in LatPairs}

InitAM ==
    /\ call = NoCall
    /\ exp = [ExpandCalled EXCEPT !.pc = "idle"]
    /\ \E b \in Boxes, k \in 0..MaxLatBuff :
           am = [AmIdle EXCEPT !.pc = "input", !.bounds = b,
                               !.lat_buff = k * TestLatBuff]
    /\ rd = RdIdle
    /\ mg = MgIdle /\ wr = WrIdle /\ sh = ShIdle

NextAM == CheckCross \/ SplitBounds

SpecAM == InitAM /\ [][NextAM]_vars

\* C5: for a box that crosses the antimeridian, split returns
\* left = (-180, min_y - lat_buffer, min_x, max_y + lat_buffer) and
\* right = (max_x, min_y - lat_buffer, 180, max_y + lat_buffer), both with
\* min_x <= max_x and a latitude span grown by 2 * lat_buffer; for the box of
\* the test with lat_buff 0.1 it returns the boxes the test expects.
C5_SplitBoxes ==
    am.pc = "split" =>
        LET b == am.bounds
            buf == am.lat_buff
        IN  /\ am.left = Box(-180 * MicroDeg, b.min_y - buf, b.min_x, b.max_y + buf)
            /\ am.right = Box(b.max_x, b.min_y - buf, 180 * MicroDeg, b.max_y + buf)
            /\ am.left.min_x <= am.left.max_x /\ am.right.min_x <= am.right.max_x
            /\ am.left.max_y - am.left.min_y = (b.max_y - b.min_y) + 2 * buf
            /\ am.right.max_y - am.right.min_y = (b.max_y - b.min_y) + 2 * buf
            /\ (b = TestBoxCross /\ buf = TestLatBuff) =>
                   /\ am.left = Box(-180000000, -78276201, -177884048, -75597151)
                   /\ am.right = Box(-177884048, -78276201, 180000000, -75597151)

\* C6: crosses_antimeridian is true exactly for the boxes with min_x > max_x
\* or a direct span max_x - min_x above 180 degrees, false for every other
\* box; false and true for the two boxes of the test.
C6_CrossesIffWrappedOrWide ==
    am.pc \in {"checked", "split"} =>
        /\ am.crosses <=> (am.bounds.max_x < am.bounds.min_x
                           \/ am.bounds.min_x + 180 * MicroDeg < am.bounds.max_x)
        /\ am.bounds = TestBoxNoCross => ~am.crosses
        /\ am.bounds = TestBoxCross => am.crosses

C6_Witness ==
    am.pc = "checked" /\ am.crosses /\ am.bounds.min_x < am.bounds.max_x

(***************************************************************************)
(* read_raster_with_bounds                                                 *)
(***************************************************************************)
Window(col_off, row_off, width, height) ==
    [col_off |-> col_off, row_off |-> row_off, width |-> width, height |-> height]

\* rasterio.windows.from_bounds: the window (in fractional pixels) of the bounds
from_bounds(left, bottom, right, top, t) ==
    LET col_l == FDiv(FSub(left, t.c), t.a)
        col_r == FDiv(FSub(right, t.c), t.a)
        row_t == FDiv(FSub(top, t.f), t.e)
        row_b == FDiv(FSub(bottom, t.f), t.e)
        col_start == Min2(col_l, col_r)
        col_stop == Max2(col_l, col_r)
        row_start == Min2(row_t, row_b)
        row_stop == Max2(row_t, row_b)
    IN  Window(col_start, row_start,
               Max2(FSub(col_stop, col_start), 0),
               Max2(FSub(row_stop, row_start), 0))

\* Variant: the buffered window is not clipped to the raster
IntersectionNoClip(w1, w2) == [ok |-> TRUE, window |-> w1]

\* rasterio.windows.Window.intersection: fails when the windows do not overlap
Intersection(w1, w2) ==
    LET col_off == Max2(w1.col_off, w2.col_off)
        row_off == Max2(w1.row_off, w2.row_off)
        width == FSub(Min2(FAdd(w1.col_off, w1.width), FAdd(w2.col_off, w2.width)),
                      col_off)
        height == FSub(Min2(FAdd(w1.row_off, w1.height), FAdd(w2.row_off, w2.height)),
                       row_off)
    IN  IF width > 0 /\ height > 0
        THEN [ok |-> TRUE, window |-> Window(col_off, row_off, width, height)]
        ELSE [ok |-> FALSE, window |-> NoWindow]

Floor(x) == x \div Scale
Ceil(x) == -((-x) \div Scale)

\* src.read(window=window): the rows and columns the window touches
ReadWindow(w) ==
    [row_start |-> Floor(w.row_off), row_stop |-> Ceil(FAdd(w.row_off, w.height)),
     col_start |-> Floor(w.col_off), col_stop |-> Ceil(FAdd(w.col_off, w.width))]

\* src.window_transform(window): transform * Affine.translation(col_off, row_off)
window_transform(t, w) ==
    [a |-> t.a, e |-> t.e,
     c |-> FAdd(FMul(t.a, w.col_off), t.c),
     f |-> FAdd(FMul(t.e, w.row_off), t.f)]

BufferedBounds(t, bounds, buffer_pixels) ==
    LET pixel_size_x == Abs(t.a)
        pixel_size_y == Abs(t.e)
        buffer_x == FMulInt(buffer_pixels, pixel_size_x)
        buffer_y == FMulInt(buffer_pixels, pixel_size_y)
    IN  Box(FSub(bounds.min_x, buffer_x), FSub(bounds.min_y, buffer_y),
            FAdd(bounds.max_x, buffer_x), FAdd(bounds.max_y, buffer_y))

read_raster_with_bounds(r) ==
    LET src == r.raster
        bb == BufferedBounds(src, r.bounds, r.buffer_pixels)
        window == from_bounds(bb.min_x, bb.min_y, bb.max_x, bb.max_y, src)
        sb == bounds_from_profile(src)
        full == from_bounds(sb.left, sb.bottom, sb.right, sb.top, src)
        clipped == Intersection(window, full)
        t == window_transform(src, clipped.window)
    IN  IF ~clipped.ok
        THEN [r EXCEPT !.pc = "raised", !.error = "WindowError"]
        ELSE [r EXCEPT !.pc = "returned",
                       !.window = clipped.window,
                       !.data = ReadWindow(clipped.window),
                       !.profile = Profile(clipped.window.width, clipped.window.height,
                                           t.a, t.e, t.c, t.f)]

ReadRaster ==
    /\ rd.pc = "call"
    /\ rd' = read_raster_with_bounds(rd)
    /\ UNCHANGED <<expVars, am, mg, wr, sh>>

\* ---- inputs: rasters of quarter-unit pixels, bounds on half-pixel (x) and
\* whole-pixel (y) positions up to RdMargin pixels outside the raster
RdMaxWidth == 3
RdHeight == 2
RdMargin == 2
MaxBuffer == 1
RdPixel == Scale \div 4
RdRasters == {Profile(w, RdHeight, RdPixel, -RdPixel, Scale, 2 * Scale) :
                 w \in 2..RdMaxWidth}
RdXs(src) == {src.c + k * (RdPixel \div 2) :
                 k \in (-2 * RdMargin)..(2 * (src.width + RdMargin))}
RdYs(src) == {src.f - k * RdPixel : k \in (-RdMargin)..(src.height + RdMargin)}

InitRead ==
    /\ call = NoCall
    /\ exp = [ExpandCalled EXCEPT !.pc = "idle"]
    /\ am = AmIdle
    /\ mg = MgIdle /\ wr = WrIdle /\ sh = ShIdle
    /\ \E src \in RdRasters, n \in 0..MaxBuffer :
         \E x0 \in RdXs(src), x1 \in RdXs(src), y0 \in RdYs(src), y1 \in RdYs(src) :
           /\ x0 < x1 /\ y0 < y1
           /\ rd = [RdIdle EXCEPT !.pc = "call", !.raster = src,
                                  !.bounds = Box(x0, y0, x1, y1),
                                  !.buffer_pixels = n]

NextRead == ReadRaster

SpecRead == InitRead /\ [][NextRead]_vars

\* the buffered bounds and their overlap with the raster, in map coordinates
RdBuffered ==
    Box(rd.bounds.min_x - rd.buffer_pixels * Abs(rd.raster.a),
        rd.bounds.min_y - rd.buffer_pixels * Abs(rd.raster.e),
        rd.bounds.max_x + rd.buffer_pixels * Abs(rd.raster.a),
        rd.bounds.max_y + rd.buffer_pixels * Abs(rd.raster.e))
RdExtent == bounds_from_profile(rd.raster)
RdOverlap ==
    Box(Max2(RdBuffered.min_x, RdExtent.left), Max2(RdBuffered.min_y, RdExtent.bottom),
        Min2(RdBuffered.max_x, RdExtent.right), Min2(RdBuffered.max_y, RdExtent.top))
RdOverlapHasArea ==
    RdOverlap.min_x < RdOverlap.max_x /\ RdOverlap.min_y < RdOverlap.max_y

\* C7: the window read is the buffered bounds clipped to the raster: every
\* row and column read is inside the raster, the returned profile (height,
\* width, transform) describes exactly the overlap, and the call fails, with
\* no data returned, exactly when the overlap has no area.
C7_WindowClippedToExtent ==
    rd.pc \in {"returned", "raised"} =>
        /\ rd.pc = "raised" <=> ~RdOverlapHasArea
        /\ rd.pc = "raised" =>
               rd.error = "WindowError" /\ rd.data = NoRead /\ rd.profile = NoProfile
        /\ rd.pc = "returned" =>
               /\ 0 <= rd.data.row_start /\ rd.data.row_start < rd.data.row_stop
               /\ rd.data.row_stop <= rd.raster.height
               /\ 0 <= rd.data.col_start /\ rd.data.col_start < rd.data.col_stop
               /\ rd.data.col_stop <= rd.raster.width
               /\ rd.profile.c = RdOverlap.min_x /\ rd.profile.f = RdOverlap.max_y
               /\ FMul(rd.profile.width, Abs(rd.profile.a))
                      = RdOverlap.max_x - RdOverlap.min_x
               /\ FMul(rd.profile.height, Abs(rd.profile.e))
                      = RdOverlap.max_y - RdOverlap.min_y

C7_Witness ==
    /\ rd.pc = "returned"
    /\ rd.buffer_pixels > 0
    /\ RdBuffered.min_x < RdExtent.left
    /\ RdBuffered.max_y > RdExtent.top
    /\ rd.bounds.min_x > RdExtent.left

(***************************************************************************)
(* merge_arrays_with_geometadata: the MemoryFiles and datasets it opens    *)
(***************************************************************************)
ResamplingNames == {"nearest", "bilinear", "cubic"}

\* lines 177-189: the checks on the arrays and profiles
MgValidate ==
    /\ mg.pc = "call"
    /\ mg' = IF mg.ndims[1] \notin {2, 3}
                \/ \E k \in DOMAIN mg.ndims : mg.ndims[k] # mg.ndims[1]
                \/ Len(mg.ndims) # mg.nprofiles
             THEN [mg EXCEPT !.pc = "raised", !.error = "ValueError"]
             ELSE [mg EXCEPT !.pc = "memfiles"]
    /\ UNCHANGED <<expVars, am, rd, wr, sh>>

\* line 191: one MemoryFile per profile
MgCreateMemfiles ==
    /\ mg.pc = "memfiles"
    /\ mg' = [mg EXCEPT !.memfiles = 1..mg.nprofiles, !.pc = "open", !.i = 1]
    /\ UNCHANGED <<expVars, am, rd, wr, sh>>

\* line 192: mfile.open(**p), one profile after the other
MgOpenDataset ==
    /\ mg.pc = "open"
    /\ mg' = IF mg.i > mg.nprofiles
             THEN [mg EXCEPT !.pc = "write", !.i = 1]
             ELSE IF mg.profile_ok[mg.i]
             THEN [mg EXCEPT !.datasets = @ \cup {mg.i}, !.i = @ + 1]
             ELSE [mg EXCEPT !.pc = "raised", !.error = "RasterioError"]
    /\ UNCHANGED <<expVars, am, rd, wr, sh>>

\* line 193: ds.write(arr), one dataset after the other
MgWriteArray ==
    /\ mg.pc = "write"
    /\ mg' = IF mg.i > mg.nprofiles
             THEN [mg EXCEPT !.pc = "merge"]
             ELSE IF mg.shape_ok[mg.i]
             THEN [mg EXCEPT !.i = @ + 1]
             ELSE [mg EXCEPT !.pc = "raised", !.error = "ValueError"]
    /\ UNCHANGED <<expVars, am, rd, wr, sh>>

\* lines 195-207: Resampling[resampling], merge, the merged profile
MgMerge ==
    /\ mg.pc = "merge"
    /\ mg' = IF mg.resampling \in ResamplingNames
             THEN [mg EXCEPT !.pc = "close_datasets"]
             ELSE [mg EXCEPT !.pc = "raised", !.error = "KeyError"]
    /\ UNCHANGED <<expVars, am, rd, wr, sh>>

\* line 209
MgCloseDatasets ==
    /\ mg.pc = "close_datasets"
    /\ mg' = [mg EXCEPT !.datasets = {}, !.pc = "close_memfiles"]
    /\ UNCHANGED <<expVars, am, rd, wr, sh>>

\* lines 210-212
MgCloseMemfiles ==
    /\ mg.pc = "close_memfiles"
    /\ mg' = [mg EXCEPT !.memfiles = {}, !.pc = "returned"]
    /\ UNCHANGED <<expVars, am, rd, wr, sh>>

MaxArrays == 2
InitMerge ==
    /\ call = NoCall
    /\ exp = [ExpandCalled EXCEPT !.pc = "idle"]
    /\ am = AmIdle /\ rd = RdIdle /\ wr = WrIdle /\ sh = ShIdle
    /\ \E n \in 1..MaxArrays, np \in 1..MaxArrays :
         \E nd \in [1..n -> {2, 3, 4}], po \in [1..np -> BOOLEAN],
            so \in [1..np -> BOOLEAN], rs \in ResamplingNames \cup {"linear"} :
           mg = [MgIdle EXCEPT !.pc = "call", !.ndims = nd, !.nprofiles = np,
                               !.profile_ok = po, !.shape_ok = so, !.resampling = rs]

NextMerge ==
    \/ MgValidate \/ MgCreateMemfiles \/ MgOpenDataset \/ MgWriteArray
    \/ MgMerge \/ MgCloseDatasets \/ MgCloseMemfiles

SpecMerge == InitMerge /\ [][NextMerge]_vars

\* C8: when merge_arrays_with_geometadata has exited, by returning or by
\* raising, no MemoryFile and no dataset it opened is still open.
C8_HandlesClosedOnExit ==
    mg.pc \in {"returned", "raised"} => mg.memfiles = {} /\ mg.datasets = {}

(***************************************************************************)
(* The operations that write files: reproject_raster, the save step of     *)
(* expand_raster_to_bounds, merge_raster_files.  wr.files are the paths    *)
(* that exist, wr.partial those whose content is not complete; wr.fail_at  *)
(* is the step at which the library call raises or fails.                  *)
(***************************************************************************)
WrRaise(err) == [wr EXCEPT !.pc = "raised", !.error = err]
WrOthers == <<expVars, am, rd, mg, sh>>

\* reproject_raster, line 34: rasterio.open(src_path)
RpOpenSrc ==
    /\ wr.op = "reproject_raster" /\ wr.pc = "call"
    /\ wr' = IF wr.fail_at = "open_src" THEN WrRaise("RasterioIOError")
             ELSE [wr EXCEPT !.pc = "calc"]
    /\ UNCHANGED WrOthers

\* lines 35-47: calculate_default_transform, pyproj.CRS
RpCalcTransform ==
    /\ wr.op = "reproject_raster" /\ wr.pc = "calc"
    /\ wr' = IF wr.fail_at = "calc" THEN WrRaise("CRSError")
             ELSE [wr EXCEPT !.pc = "open_dst"]
    /\ UNCHANGED WrOthers

\* line 49: rasterio.open(out_path, 'w') creates the output file
RpOpenDst ==
    /\ wr.op = "reproject_raster" /\ wr.pc = "open_dst"
    /\ wr' = IF wr.fail_at = "open_dst" THEN WrRaise("RasterioIOError")
             ELSE [wr EXCEPT !.pc = "band", !.band = 1,
                             !.files = @ \cup {"out"}, !.partial = @ \cup {"out"}]
    /\ UNCHANGED WrOthers

\* lines 50-58: reproject band after band; leaving the with blocks closes
\* dst and src and lets the error through
RpBand ==
    /\ wr.op = "reproject_raster" /\ wr.pc = "band"
    /\ wr' = IF wr.band > wr.count
             THEN [wr EXCEPT !.pc = "returned", !.partial = @ \ {"out"}]
             ELSE IF wr.fail_at = "band" /\ wr.fail_band = wr.band
             THEN WrRaise("WarpOperationError")
             ELSE [wr EXCEPT !.band = @ + 1]
    /\ UNCHANGED WrOthers

\* expand_raster_to_bounds, line 142: rasterio.open(save_path, 'w')
SaveOpen ==
    /\ wr.op = "expand_raster_to_bounds" /\ wr.pc = "call"
    /\ wr' = IF wr.fail_at = "open_dst" THEN WrRaise("RasterioIOError")
             ELSE [wr EXCEPT !.pc = "write",
                             !.files = @ \cup {"out"}, !.partial = @ \cup {"out"}]
    /\ UNCHANGED WrOthers

\* line 143: dst.write(trg_array)
SaveWrite ==
    /\ wr.op = "expand_raster_to_bounds" /\ wr.pc = "write"
    /\ wr' = IF wr.fail_at = "write" THEN WrRaise("ValueError")
             ELSE [wr EXCEPT !.pc = "returned", !.partial = @ \ {"out"}]
    /\ UNCHANGED WrOthers

\* merge_raster_files, lines 149-151: gdal.BuildVRT writes the .vrt; a failing
\* GDAL call raises, or only returns None when GDAL exceptions are off
MfBuildVrt ==
    /\ wr.op = "merge_raster_files" /\ wr.pc = "call"
    /\ wr' = IF wr.fail_at = "buildvrt"
             THEN IF wr.gdal_raises THEN WrRaise("RuntimeError")
                  ELSE [wr EXCEPT !.pc = "translate"]
             ELSE [wr EXCEPT !.pc = "translate", !.files = @ \cup {"vrt"}]
    /\ UNCHANGED WrOthers

\* lines 154-155: gdal.Translate writes the output from the .vrt
MfTranslate ==
    /\ wr.op = "merge_raster_files" /\ wr.pc = "translate"
    /\ wr' = IF wr.fail_at = "translate" \/ "vrt" \notin wr.files
             THEN IF wr.gdal_raises THEN WrRaise("RuntimeError")
                  ELSE [wr EXCEPT !.pc = "remove",
                                  !.files = IF "vrt" \in wr.files
                                            THEN @ \cup {"out"} ELSE @,
                                  !.partial = IF "vrt" \in wr.files
                                              THEN @ \cup {"out"} ELSE @]
             ELSE [wr EXCEPT !.pc = "remove", !.files = @ \cup {"out"}]
    /\ UNCHANGED WrOthers

\* line 158: os.remove(vrt_path)
MfRemove ==
    /\ wr.op = "merge_raster_files" /\ wr.pc = "remove"
    /\ wr' = IF "vrt" \notin wr.files THEN WrRaise("FileNotFoundError")
             ELSE [wr EXCEPT !.files = @ \ {"vrt"},
                             !.pc = IF wr.return_data THEN "read" ELSE "returned"]
    /\ UNCHANGED WrOthers

\* lines 161-165: read the output back
MfRead ==
    /\ wr.op = "merge_raster_files" /\ wr.pc = "read"
    /\ wr' = IF wr.fail_at = "read" \/ "out" \notin wr.files \/ "out" \in wr.partial
             THEN WrRaise("RasterioIOError")
             ELSE [wr EXCEPT !.pc = "returned"]
    /\ UNCHANGED WrOthers

MaxBands == 3
WriteCalls ==
    {[WrIdle EXCEPT !.op = "reproject_raster", !.pc = "call", !.count = n,
                    !.fail_at = fa, !.fail_band = fb] :
        n \in 1..MaxBands, fa \in {"none", "open_src", "calc", "open_dst", "band"},
        fb \in 0..MaxBands}
    \cup {[WrIdle EXCEPT !.op = "expand_raster_to_bounds", !.pc = "call",
                         !.count = 1, !.fail_at = fa] :
            fa \in {"none", "open_dst", "write"}}
    \cup {[WrIdle EXCEPT !.op = "merge_raster_files", !.pc = "call", !.count = 1,
                         !.fail_at = fa, !.return_data = rd_, !.gdal_raises = gr] :
            fa \in {"none", "buildvrt", "translate", "read"},
            rd_ \in BOOLEAN, gr \in BOOLEAN}

InitWrite ==
    /\ call = NoCall
    /\ exp = [ExpandCalled EXCEPT !.pc = "idle"]
    /\ am = AmIdle /\ rd = RdIdle /\ mg = MgIdle /\ sh = ShIdle
    /\ wr \in {w \in WriteCalls :
                 IF w.fail_at = "band" THEN w.fail_band \in 1..w.count
                                       ELSE w.fail_band = 0}

NextWrite ==
    \/ RpOpenSrc \/ RpCalcTransform \/ RpOpenDst \/ RpBand
    \/ SaveOpen \/ SaveWrite
    \/ MfBuildVrt \/ MfTranslate \/ MfRemove \/ MfRead

SpecWrite == InitWrite /\ [][NextWrite]_vars

\* C9: when a writing operation has failed, no output file and no
\* intermediate .vrt exists at the output location; an output file exists on
\* exit only if the operation completed, and then it is complete.
C9_NoOutputAfterFailure ==
    /\ wr.pc = "raised" => wr.files = {}
    /\ wr.pc = "returned" => wr.partial = {} /\ "vrt" \notin wr.files

(***************************************************************************)
(* build_vrt and build_tileindex run by several processes in one working   *)
(* directory.  sh.files maps a scratch file name to "absent" or to its     *)
(* inode and lines; a process keeps the inode it opened.                   *)
(***************************************************************************)
ScratchName(op) == IF op = "build_vrt" THEN "vrt_temp.txt" ELSE "tindex_temp.txt"
Absent == [ino |-> 0, lines |-> <<>>, owner |-> 0]
ShOthers == <<expVars, am, rd, mg, wr>>

\* what a write of `new` at offset 0 leaves of the lines `old` already there
Overwrite(old, new) ==
    IF Len(new) >= Len(old) THEN new
    ELSE new \o SubSeq(old, Len(new) + 1, Len(old))

\* open(name, "w"): creates the file, or truncates the one that is there
ShOpen(p) ==
    LET me == sh.procs[p]
        name == ScratchName(me.op)
        old == sh.files[name]
        ino == IF old = Absent THEN sh.next_ino ELSE old.ino
    IN  /\ me.pc = "call"
        /\ sh' = [sh EXCEPT
                    !.files[name] = [ino |-> ino, lines |-> <<>>, owner |-> p],
                    !.next_ino = IF old = Absent THEN @ + 1 ELSE @,
                    !.procs[p].fd = ino,
                    !.procs[p].pc = "write",
                    !.lost = IF old # Absent /\ old.owner # p
                                /\ sh.procs[old.owner].pc = "system"
                             THEN @ \cup {old.owner} ELSE @]
        /\ UNCHANGED ShOthers

\* f.writelines(...) and the close at the end of the with block
ShWrite(p) ==
    LET me == sh.procs[p]
        name == ScratchName(me.op)
        old == sh.files[name]
    IN  /\ me.pc = "write"
        /\ sh' = [sh EXCEPT
                    !.files[name] =
                        IF old # Absent /\ old.ino = me.fd
                        THEN [old EXCEPT !.lines = Overwrite(old.lines, me.tiles)]
                        ELSE old,
                    !.procs[p].pc = IF me.run THEN "system" ELSE "returned"]
        /\ UNCHANGED ShOthers

\* os.system('gdalbuildvrt -input_file_list vrt_temp.txt ...'): the tool
\* reads the scratch file that is there now
ShSystem(p) ==
    LET me == sh.procs[p]
        name == ScratchName(me.op)
    IN  /\ me.pc = "system"
        /\ sh' = [sh EXCEPT
                    !.procs[p].tool_input =
                        IF sh.files[name] = Absent THEN <<"missing">>
                        ELSE sh.files[name].lines,
                    !.procs[p].pc = "remove"]
        /\ UNCHANGED ShOthers

\* os.remove(name)
ShRemove(p) ==
    LET me == sh.procs[p]
        name == ScratchName(me.op)
        old == sh.files[name]
    IN  /\ me.pc = "remove"
        /\ sh' = IF old = Absent
                 THEN [sh EXCEPT !.procs[p].pc = "raised",
                                 !.procs[p].error = "FileNotFoundError"]
                 ELSE [sh EXCEPT
                         !.files[name] = Absent,
                         !.procs[p].pc = "returned",
                         !.lost = IF old.owner # p
                                     /\ sh.procs[old.owner].pc = "system"
                                  THEN @ \cup {old.owner} ELSE @]
        /\ UNCHANGED ShOthers

NumProcs == 2
MaxTiles == 2
\* the tile paths of process p: its own, told apart by the process number
TilesOf(p, n) == [k \in 1..n |-> <<p, k>>]

InitShared ==
    /\ call = NoCall
    /\ exp = [ExpandCalled EXCEPT !.pc = "idle"]
    /\ am = AmIdle /\ rd = RdIdle /\ mg = MgIdle /\ wr = WrIdle
    /\ \E ops \in [1..NumProcs -> {"build_vrt", "build_tileindex"}],
          ns \in [1..NumProcs -> 1..MaxTiles],
          runs \in [1..NumProcs -> BOOLEAN] :
         sh = [procs |-> [p \in 1..NumProcs |->
                            [op |-> ops[p], tiles |-> TilesOf(p, ns[p]),
                             run |-> runs[p], pc |-> "call", fd |-> 0,
                             tool_input |-> <<>>, error |-> "none"]],
               files |-> [n \in {"vrt_temp.txt", "tindex_temp.txt"} |-> Absent],
               next_ino |-> 1,
               lost |-> {}]

NextShared ==
    \E p \in 1..NumProcs : ShOpen(p) \/ ShWrite(p) \/ ShSystem(p) \/ ShRemove(p)

SpecShared == InitShared /\ [][NextShared]_vars

\* C10: when all invocations run the tool, each tool run reads a scratch file
\* that exists and holds exactly the tile paths its own invocation wrote, and
\* no invocation removes or overwrites a scratch file another invocation has
\* written and not yet consumed (sh.lost records the invocations it happened to).
C10_EachToolReadsItsOwnList ==
    (\A p \in DOMAIN sh.procs : sh.procs[p].run) =>
        /\ \A p \in DOMAIN sh.procs :
               sh.procs[p].pc \in {"remove", "returned", "raised"} =>
                   sh.procs[p].tool_input = sh.procs[p].tiles
        /\ sh.lost = {}

====
